---------------------------- MODULE Spec2Model ----------------------------
(***************************************************************************)
(* A model of the EPRX trading-results scraper (src/eprx_scraper.py) and   *)
(* of its command-line entry point (src/run_eprx_results.py).              *)
(*                                                                         *)
(* The module holds several specifications over one set of variables, one  *)
(* per part of the program:                                                *)
(*   SpecParse    EPRX.parse_links on bounded markup                       *)
(*   SpecFetch    EPRX.download_files and EPRX._download_zip               *)
(*   SpecExtract  EPRX._extract_zip                                        *)
(*   SpecConv     EPRX._convert_csv_encoding, called repeatedly            *)
(*   SpecRun      run_eprx_results.py, EPRX.results, EPRX.results_direct   *)
(* Every specification leaves the variables of the other parts at their    *)
(* idle values.                                                            *)
(*                                                                         *)
(* Japanese text of the source is written in ASCII: the unit suffix of a   *)
(* fiscal-year label (U+5E74 U+5EA6) is the token "nendo".                 *)
(***************************************************************************)
EXTENDS Integers, Sequences, FiniteSets, TLC

VARIABLES
    \* ---- parse_links ----
    html,          \* the markup handed to parse_links, in document order
    year,          \* its year argument (<<>> is None or "")
    report_type,   \* its report_type argument
    links,         \* its return value
    parse_pc,      \* "call" before the call, "done" after it
    \* ---- download_files, _download_zip ----
    fs,            \* the output directory: file name -> file
    fetch_links,   \* download_files: the links still to visit
    overwrite,     \* download_files: its overwrite argument
    requests,      \* the URLs requested so far, in order
    fetch_log,     \* the messages printed so far
    fetch_last,    \* what the last item handled did (history)
    fetch_pc,      \* which function runs, or how it ended
    \* ---- _extract_zip, _extract_downloaded_zips ----
    arch,          \* the files of the zip directory: path -> archive file
    xdir,          \* the directories beside them: stem -> directory
    ext_todo,      \* _extract_downloaded_zips: the listing still to visit
    ext_log,       \* the messages printed so far
    ext_last,      \* what the last _extract_zip call did (history)
    ext_pc,        \* which function runs, or how it ended
    \* ---- _convert_csv_encoding ----
    src_bytes,     \* the bytes the archives hold for a text file
    linesep,       \* os.linesep of the platform, as bytes
    tree,          \* the files under the zip directory: path -> file
    conv_calls,    \* the _convert_csv_encoding calls made so far
    \* ---- a run: run_eprx_results.py, results, results_direct ----
    argv,          \* sys.argv[1:], each argument a sequence of characters
    today,         \* date.today()
    run_pc,        \* where the run is
    crash_cause,   \* what raised the exception nothing caught
    fiscal_year,   \* the year handed to results()
    scraper,       \* EPRX() was constructed
    browser,       \* self.browser: "none", "open", "closed"
    playwright,    \* self.playwright: "none", "started", "stopped"
    network,       \* the navigations and requests issued so far
    dl_total,      \* the links of the run
    dl_i,          \* the links the download loop is through with
    inflight,      \* the fetches begun and not yet ended
    items,         \* per link: what became of it (history and files)
    todo           \* the listing a loop over the zip directory still visits

parseVars == <<html, year, report_type, links, parse_pc>>
fetchVars ==
    <<fs, fetch_links, overwrite, requests, fetch_log, fetch_last, fetch_pc>>

extractVars == <<arch, xdir, ext_todo, ext_log, ext_last, ext_pc>>

convVars == <<src_bytes, linesep, tree, conv_calls>>

runVars ==
    <<argv, today, run_pc, crash_cause, fiscal_year, scraper, browser,
      playwright, network, dl_total, dl_i, inflight, items, todo>>

vars == <<parseVars, fetchVars, extractVars, convVars, runVars>>

\* ------------------------------------------------------------------------
\* Generic helpers
\* ------------------------------------------------------------------------

\* All sequences over S of length at most n.
SeqsUpTo(S, n) == UNION {[1..k -> S] : k \in 0..n}

\* The least element of a non-empty set of integers.
SetMin(S) == CHOOSE x \in S : \A y \in S : x <= y

\* ------------------------------------------------------------------------
\* parse_links (src/eprx_scraper.py:156-181)
\* ------------------------------------------------------------------------

\* Bounds of the markup.
MaxElems == 3
MaxRows == 2

\* The two headings parse_links looks for (lines 160-164).
FinalTitle == "results-download(kakuhouchi)"
PromptTitle == "results-download(sokuhouchi)"

\* table_title: "final" selects the final heading, anything else the prompt one.
TableTitle(rt) == IF rt = "final" THEN FinalTitle ELSE PromptTitle

\* urljoin(self.base_url, href) for the hrefs of the model, all relative.
BASE_URL == "https://www.eprx.or.jp/information/"
UrlJoin(base, href) == <<base, href>>

\* str.strip() on a text given as a sequence of tokens, " " being whitespace.
RECURSIVE LStrip(_)
LStrip(s) == IF s # <<>> /\ Head(s) = " " THEN LStrip(Tail(s)) ELSE s
RECURSIVE RStrip(_)
RStrip(s) ==
    IF s # <<>> /\ s[Len(s)] = " " THEN RStrip(SubSeq(s, 1, Len(s) - 1)) ELSE s
Strip(s) == RStrip(LStrip(s))

\* str.replace(tok, ""): every occurrence of the token is removed.
RECURSIVE Remove(_, _)
Remove(s, tok) ==
    IF s = <<>> THEN <<>>
    ELSE IF Head(s) = tok THEN Remove(Tail(s), tok)
    ELSE <<Head(s)>> \o Remove(Tail(s), tok)

\* yr.get_text(strip=True).replace("nendo", "")  (line 176)
YrText(th) == Remove(Strip(th), "nendo")

\* The hrefs of a row's anchors that have one, resolved (lines 179-180).
RECURSIVE AnchorLinks(_)
AnchorLinks(as) ==
    IF as = <<>> THEN <<>>
    ELSE (IF Head(as).hasHref
          THEN <<UrlJoin(BASE_URL, Head(as).href)>> ELSE <<>>)
         \o AnchorLinks(Tail(as))

\* The row is skipped: it has a th scope="row", a year was asked for and the
\* label differs (lines 174-178). A row without such a th is never skipped.
RowSkipped(tr, yr) == tr.hasTh /\ yr # <<>> /\ YrText(tr.th) # yr

\* The loop over the table's rows (lines 172-181).
RECURSIVE RowLinks(_, _)
RowLinks(rows, yr) ==
    IF rows = <<>> THEN <<>>
    ELSE (IF RowSkipped(Head(rows), yr) THEN <<>>
          ELSE AnchorLinks(Head(rows).anchors))
         \o RowLinks(Tail(rows), yr)

\* soup.find("h2", string=table_title): the first h2 with exactly that text;
\* 0 when there is none (line 166).
FindHeading(doc, title) ==
    LET hs == {i \in DOMAIN doc : doc[i].tag = "h2" /\ doc[i].string = title}
    IN  IF hs = {} THEN 0 ELSE SetMin(hs)

\* section_title.find_next("table"): the first table after the heading,
\* anywhere later in the document; 0 when there is none (line 169).
FindNextTable(doc, h) ==
    LET ts == {j \in DOMAIN doc : j > h /\ doc[j].tag = "table"}
    IN  IF ts = {} THEN 0 ELSE SetMin(ts)

ParseLinks(doc, yr, rt) ==
    LET h == FindHeading(doc, TableTitle(rt))
    IN  IF h = 0 THEN <<>>
        ELSE LET t == FindNextTable(doc, h)
             IN  IF t = 0 THEN <<>> ELSE RowLinks(doc[t].rows, yr)

\* ---- the inputs ----
Label2024 == <<"2024", "nendo">>
Label2099 == <<"2099", "nendo">>
NoTh == <<>>

A(h) == [hasHref |-> TRUE, href |-> h]
NoHrefAnchor == [hasHref |-> FALSE, href |-> ""]
Row(hasTh, th, as) == [hasTh |-> hasTh, th |-> th, anchors |-> as]

RowSet ==
    { Row(TRUE, Label2024, <<A("a.zip"), A("b.zip")>>),
      Row(TRUE, <<" ">> \o Label2024, <<NoHrefAnchor, A("c.zip")>>),
      Row(TRUE, Label2099, <<A("d.zip")>>),
      Row(FALSE, NoTh, <<A("e.zip")>>),
      Row(FALSE, NoTh, <<>>) }

H2(t) == [tag |-> "h2", string |-> t, rows |-> <<>>]
Table(rs) == [tag |-> "table", string |-> "", rows |-> rs]

ElemSet ==
    {H2(FinalTitle), H2(PromptTitle)}
        \cup {Table(rs) : rs \in SeqsUpTo(RowSet, MaxRows)}

YearArgs == {<<>>, <<"2024">>, <<"2099">>}
ReportTypes == {"final", "prompt"}

ParseIdle ==
    /\ html = <<>> /\ year = <<>> /\ report_type = "final"
    /\ links = <<>> /\ parse_pc = "idle"

\* A page has at most one section per report kind.
Count(doc, title) ==
    Cardinality({i \in DOMAIN doc : doc[i].tag = "h2" /\ doc[i].string = title})

Pages ==
    {d \in SeqsUpTo(ElemSet, MaxElems) :
        Count(d, FinalTitle) <= 1 /\ Count(d, PromptTitle) <= 1}

InitParse ==
    /\ html \in Pages
    /\ year \in YearArgs
    /\ report_type \in ReportTypes
    /\ links = <<>>
    /\ parse_pc = "call"

CallParseLinks ==
    /\ parse_pc = "call"
    /\ links' = ParseLinks(html, year, report_type)
    /\ parse_pc' = "done"
    /\ UNCHANGED <<html, year, report_type>>
    /\ UNCHANGED <<fetchVars, extractVars, convVars, runVars>>

NextParse == CallParseLinks


\* ------------------------------------------------------------------------
\* download_files (src/eprx_scraper.py:183-201) and
\* _download_zip (src/eprx_scraper.py:49-74)
\* ------------------------------------------------------------------------

\* Bounds: the links of one download_files call, the _download_zip calls.
MaxLinks == 2
MaxCalls == 2

\* The sanity threshold on the body length (lines 68 and 194).
MinBody == 100

\* A URL is its directory and its base name: os.path.basename(url) (line 188).
Url(d, b) == [dir |-> d, base |-> b]
Basename(url) == url.base
Urls == {Url("x/", "a.zip"), Url("y/", "a.zip"), Url("x/", "b.zip")}
FileNames == {Basename(u) : u \in Urls}

\* A file of the directory: absent, or its bytes (their length and origin).
NoFile == [exists |-> FALSE, len |-> 0, from |-> Url("", "")]
OldFile == [exists |-> TRUE, len |-> 150, from |-> Url("old/", "old")]
Body(url, n) == [exists |-> TRUE, len |-> n, from |-> url]

\* os.path.exists(filename)
Exists(dir, name) == dir[name].exists

\* What a GET can come back with: a response (its status, the length of its
\* body) or an exception (connection, TLS, timeout).
BodyLens == {0, MinBody - 1, MinBody, MinBody + 1}
Responses ==
    [kind : {"response"}, ok : BOOLEAN, len : BodyLens]
        \cup {[kind |-> "exception", ok |-> FALSE, len |-> 0]}

\* `os.path.exists(filename) and not overwrite` (lines 56 and 189)
ShouldSkipInverted(exists, ow) == exists /\ ow
ShouldSkip(exists, ow) == exists /\ ~ow

\* `r.ok and len(r.content) > 100` (lines 68 and 194)
BodyAccepted(ok, n) == ok /\ n > MinBody

NoItem ==
    [fn |-> "none", name |-> "", url |-> Url("", ""), overwrite |-> FALSE,
     before |-> NoFile, requested |-> FALSE,
     resp |-> [kind |-> "none", ok |-> FALSE, len |-> 0], outcome |-> "none"]

FetchIdle ==
    /\ fs = [n \in FileNames |-> NoFile]
    /\ fetch_links = <<>> /\ overwrite = FALSE /\ requests = <<>>
    /\ fetch_log = <<>> /\ fetch_last = NoItem /\ fetch_pc = "idle"

InitFetch ==
    /\ fs \in [FileNames -> {NoFile, OldFile}]
    /\ fetch_pc \in {"download_files", "download_zip"}
    /\ fetch_links \in
          IF fetch_pc = "download_files" THEN SeqsUpTo(Urls, MaxLinks) ELSE {<<>>}
    /\ overwrite \in IF fetch_pc = "download_files" THEN BOOLEAN ELSE {FALSE}
    /\ requests = <<>>
    /\ fetch_log = <<>>
    /\ fetch_last = NoItem

\* One item: the existence check, the GET and the write, as both functions
\* do them. `caught` tells whether the GET sits inside a try (download_files,
\* lines 192-201) or not (_download_zip, line 67).
FetchItem(fn, url, name, ow, resp, caught) ==
    LET skip == ShouldSkip(Exists(fs, name), ow)
        accepted == resp.kind = "response" /\ BodyAccepted(resp.ok, resp.len)
        outcome ==
            IF skip THEN "skipped"
            ELSE IF resp.kind = "exception"
                 THEN (IF caught THEN "error" ELSE "raised")
            ELSE IF accepted THEN "downloaded" ELSE "failed"
    IN  /\ requests' = IF skip THEN requests ELSE Append(requests, url)
        /\ fs' = IF ~skip /\ accepted
                 THEN [fs EXCEPT ![name] = Body(url, resp.len)] ELSE fs
        /\ fetch_log' = Append(fetch_log, <<outcome, name>>)
        /\ fetch_last' =
              [fn |-> fn, name |-> name, url |-> url, overwrite |-> ow,
               before |-> fs[name], requested |-> ~skip,
               resp |-> IF skip THEN NoItem.resp ELSE resp,
               outcome |-> outcome]

\* One iteration of the loop of download_files (lines 187-201).
DownloadFilesIter ==
    /\ fetch_pc = "download_files"
    /\ fetch_links # <<>>
    /\ \E resp \in Responses :
          FetchItem("download_files", Head(fetch_links),
                    Basename(Head(fetch_links)), overwrite, resp, TRUE)
    /\ fetch_links' = Tail(fetch_links)
    /\ UNCHANGED <<overwrite, fetch_pc>>
    /\ UNCHANGED <<parseVars, extractVars, convVars, runVars>>

\* download_files returns once the loop is over.
DownloadFilesReturn ==
    /\ fetch_pc = "download_files"
    /\ fetch_links = <<>>
    /\ fetch_pc' = "returned"
    /\ UNCHANGED <<fs, fetch_links, overwrite, requests, fetch_log, fetch_last>>
    /\ UNCHANGED <<parseVars, extractVars, convVars, runVars>>

\* One call of _download_zip: the URL comes from dir_name and date, the
\* destination is out_path (lines 52-74). An exception of requests.get is
\* not caught and ends the caller.
DownloadZip ==
    /\ fetch_pc = "download_zip"
    /\ Len(fetch_log) < MaxCalls
    /\ \E url \in Urls, out \in FileNames, ow \in BOOLEAN, resp \in Responses :
          /\ FetchItem("_download_zip", url, out, ow, resp, FALSE)
          /\ fetch_pc' = IF ~ShouldSkip(Exists(fs, out), ow)
                            /\ resp.kind = "exception"
                         THEN "raised" ELSE "download_zip"
    /\ UNCHANGED <<fetch_links, overwrite>>
    /\ UNCHANGED <<parseVars, extractVars, convVars, runVars>>

NextFetch == DownloadFilesIter \/ DownloadFilesReturn \/ DownloadZip

\* C1: with overwrite disabled an existing destination is never clobbered:
\* no request is issued for the item, it is reported as skipped and the
\* file's content after the call is its content before.
C1_NoClobber ==
    (fetch_last.fn # "none" /\ fetch_last.before.exists /\ ~fetch_last.overwrite)
        => /\ ~fetch_last.requested
           /\ fetch_last.outcome = "skipped"
           /\ fetch_log[Len(fetch_log)] = <<"skipped", fetch_last.name>>
           /\ fs[fetch_last.name] = fetch_last.before

\* C1 witness: an item whose destination existed was handled with overwrite
\* disabled, after a request for another item had been issued.
C1_Witness ==
    /\ fetch_last.fn # "none" /\ fetch_last.before.exists
    /\ ~fetch_last.overwrite /\ fetch_last.outcome = "skipped"
    /\ requests # <<>>

\* C4: a non-success status, or a success status with a body under 100
\* bytes, is reported as failed and leaves the destination as it was; a
\* success status with a body of 100 bytes or more writes the body.
C4_FailedWritesNothing ==
    (fetch_last.requested /\ fetch_last.resp.kind = "response") =>
        IF fetch_last.resp.ok /\ fetch_last.resp.len >= MinBody
        THEN /\ fetch_last.outcome = "downloaded"
             /\ fs[fetch_last.name] = Body(fetch_last.url, fetch_last.resp.len)
        ELSE /\ fetch_last.outcome = "failed"
             /\ fs[fetch_last.name] = fetch_last.before

\* ------------------------------------------------------------------------
\* _extract_zip (src/eprx_scraper.py:238-253) and
\* _extract_downloaded_zips (src/eprx_scraper.py:255-261)
\* ------------------------------------------------------------------------

\* Bound: the _extract_zip calls made directly.
MaxExtractCalls == 2

\* A path of the zip directory is its stem and its extension:
\* os.path.splitext(path)[0] is the stem (line 240).
Path(st, ex) == [stem |-> st, ext |-> ex]
SplitExtStem(path) == path.stem
ArchPaths == {Path("a", ".zip"), Path("b", ".ZIP"), Path("c", ".dat")}
Stems == {SplitExtStem(p) : p \in ArchPaths}

\* str.lower() on the extensions of the model.
Lower(ex) == IF ex = ".ZIP" THEN ".zip" ELSE ex

\* `filename.lower().endswith(".zip")` (line 260)
IsZipName(path) == Lower(path.ext) = ".zip"

\* The entries an archive can hold.
Entries == {"x.csv", "y.csv"}

\* A file of the zip directory: absent, a valid archive with its entries, or
\* a corrupt one (zipfile raises on it, after extracting some of them).
NoArch == [exists |-> FALSE, valid |-> FALSE, entries |-> {}]
Arch(v, es) == [exists |-> TRUE, valid |-> v, entries |-> es]
ArchStates ==
    {NoArch} \cup {Arch(v, es) : v \in BOOLEAN, es \in SUBSET Entries \ {{}}}

\* A directory beside the archives: absent, or the names it holds.
NoDir == [exists |-> FALSE, files |-> {}]
Dir(fsn) == [exists |-> TRUE, files |-> fsn]
DirStates == {NoDir} \cup {Dir(fsn) : fsn \in SUBSET Entries}

\* A variant that removes the archive whether or not extraction raised.
RemoveWantedAnyway(extracted, remove_archive) == remove_archive

\* The archive is removed: extraction did not raise (the except branch
\* returns, line 248) and the caller asked for it (line 249).
RemoveWanted(extracted, remove_archive) == extracted /\ remove_archive

NoCall ==
    [path |-> Path("", ""), remove_archive |-> FALSE, before |-> NoArch,
     extracted |-> FALSE, removal |-> "none"]

ExtractIdle ==
    /\ arch = [p \in ArchPaths |-> NoArch]
    /\ xdir = [st \in Stems |-> NoDir]
    /\ ext_todo = <<>> /\ ext_log = <<>> /\ ext_last = NoCall
    /\ ext_pc = "idle"

InitExtract ==
    /\ arch \in [ArchPaths -> ArchStates]
    /\ arch[Path("c", ".dat")] = Arch(TRUE, {"x.csv"})
    /\ xdir \in [Stems -> DirStates]
    /\ xdir["c"] = NoDir
    /\ ext_todo = <<>>
    /\ ext_log = <<>>
    /\ ext_last = NoCall
    /\ ext_pc \in {"extract_downloaded_zips", "extract_zip"}

\* _extract_zip(path, remove_archive). `written` is what zipfile put into
\* the directory before it returned or raised; `removable` is whether
\* os.remove succeeds.
ExtractZip(path, remove_archive, written, removable) ==
    LET a == arch[path]
        st == SplitExtStem(path)
        extracted == a.exists /\ a.valid
        files == (IF xdir[st].exists THEN xdir[st].files ELSE {}) \cup written
        remove == RemoveWanted(extracted, remove_archive)
        removal == IF ~remove THEN "kept"
                   ELSE IF a.exists /\ removable THEN "removed"
                   ELSE "remove_failed"
    IN  /\ written \subseteq a.entries
        /\ extracted => written = a.entries
        /\ xdir' = [xdir EXCEPT ![st] = Dir(files)]
        /\ arch' = IF removal = "removed"
                   THEN [arch EXCEPT ![path] = NoArch] ELSE arch
        /\ ext_log' =
              ext_log
                \o <<IF extracted THEN <<"Extracted", path>>
                     ELSE <<"Failed to extract", path>>>>
                \o (IF removal = "remove_failed"
                    THEN <<<<"Failed to remove", path>>>> ELSE <<>>)
        /\ ext_last' =
              [path |-> path, remove_archive |-> remove_archive, before |-> a,
               extracted |-> extracted, removal |-> removal]

\* A direct call of _extract_zip.
CallExtractZip ==
    /\ ext_pc = "extract_zip"
    /\ Len(ext_log) < MaxExtractCalls
    /\ \E path \in ArchPaths, remove_archive \in BOOLEAN,
          written \in SUBSET Entries, removable \in BOOLEAN :
          ExtractZip(path, remove_archive, written, removable)
    /\ UNCHANGED <<ext_todo, ext_pc>>
    /\ UNCHANGED <<parseVars, fetchVars, convVars, runVars>>

\* All orders of a set of at most three elements, os.listdir promising none.
Orders(S) == {q \in [1..Cardinality(S) -> S] : \A x \in S : \E i \in DOMAIN q : q[i] = x}

\* _extract_downloaded_zips: os.listdir is read once (line 259).
ListZipDir ==
    /\ ext_pc = "extract_downloaded_zips"
    /\ ext_todo' \in Orders({p \in ArchPaths : arch[p].exists})
    /\ ext_pc' = "listing"
    /\ UNCHANGED <<arch, xdir, ext_log, ext_last>>
    /\ UNCHANGED <<parseVars, fetchVars, convVars, runVars>>

\* One iteration of its loop: a name that ends in .zip, whatever its case,
\* is extracted with remove_archive at its default, True (lines 260-261).
ExtractListed ==
    /\ ext_pc = "listing"
    /\ ext_todo # <<>>
    /\ IF IsZipName(Head(ext_todo))
       THEN \E written \in SUBSET Entries, removable \in BOOLEAN :
               ExtractZip(Head(ext_todo), TRUE, written, removable)
       ELSE UNCHANGED <<arch, xdir, ext_log, ext_last>>
    /\ ext_todo' = Tail(ext_todo)
    /\ UNCHANGED ext_pc
    /\ UNCHANGED <<parseVars, fetchVars, convVars, runVars>>

ExtractDownloadedReturn ==
    /\ ext_pc = "listing"
    /\ ext_todo = <<>>
    /\ ext_pc' = "returned"
    /\ UNCHANGED <<arch, xdir, ext_todo, ext_log, ext_last>>
    /\ UNCHANGED <<parseVars, fetchVars, convVars, runVars>>

NextExtract ==
    CallExtractZip \/ ListZipDir \/ ExtractListed \/ ExtractDownloadedReturn

\* The last call was made on an existing file with remove_archive True.
LastDefaultCall == ext_last.before.exists /\ ext_last.remove_archive

LastDir == xdir[SplitExtStem(ext_last.path)]

\* C5 as stated: on a valid archive _extract_zip ends with the archive
\* deleted and the directory holding its entries; on an invalid one it
\* reports failure and the archive still exists; the archive is never deleted
\* without its contents extracted.
C5_AsStated ==
    LastDefaultCall =>
        /\ ext_last.before.valid =>
              /\ ~arch[ext_last.path].exists
              /\ LastDir.exists /\ ext_last.before.entries \subseteq LastDir.files
        /\ ~ext_last.before.valid =>
              /\ <<"Failed to extract", ext_last.path>> = ext_log[Len(ext_log)]
              /\ arch[ext_last.path] = ext_last.before
        /\ ~arch[ext_last.path].exists =>
              ext_last.before.entries \subseteq LastDir.files

\* C5 amended: on a valid archive _extract_zip ends with the directory
\* holding its entries and with the archive deleted, unless os.remove itself
\* fails: then that failure is printed and the archive stays; on an invalid
\* one it reports failure and the archive still exists; the archive is never
\* deleted without its contents extracted.
C5_ExtractThenRemove ==
    LastDefaultCall =>
        /\ ext_last.before.valid =>
              /\ LastDir.exists /\ ext_last.before.entries \subseteq LastDir.files
              /\ \/ ~arch[ext_last.path].exists
                 \/ /\ ext_last.removal = "remove_failed"
                    /\ <<"Failed to remove", ext_last.path>> = ext_log[Len(ext_log)]
                    /\ arch[ext_last.path] = ext_last.before
        /\ ~ext_last.before.valid =>
              /\ <<"Failed to extract", ext_last.path>> = ext_log[Len(ext_log)]
              /\ arch[ext_last.path] = ext_last.before
        /\ ~arch[ext_last.path].exists =>
              ext_last.before.entries \subseteq LastDir.files

\* C5 witness: a corrupt archive was handed to _extract_zip after a valid one
\* had been extracted and removed.
C5_Witness ==
    /\ LastDefaultCall /\ ~ext_last.before.valid
    /\ arch[ext_last.path].exists
    /\ \E p \in ArchPaths : <<"Extracted", p>> = ext_log[1] /\ ~arch[p].exists


\* ------------------------------------------------------------------------
\* _convert_csv_encoding (src/eprx_scraper.py:263-280)
\* ------------------------------------------------------------------------

\* Bounds: the length of a published text file, the conversion calls.
MaxLen == 3
MaxConverts == 2

\* The bytes a published file is made of: "A", CR, LF and the two bytes of
\* the Shift-JIS code of U+5E74 (0x94 0x4E).
ByteAlphabet == {65, 13, 10, 148, 78}

\* The double-byte part of the shift_jis codec: <<lead, trail, code point>>,
\* 0 for a pair the codec has no character for. The table lists the pairs
\* that the files of the model can come to hold (computed with the codec).
SjisTable ==
    { <<129, 239, 0>>, <<133, 149, 0>>, <<134, 239, 0>>,
      <<138, 229, 38593>>, <<138, 230, 38929>>, <<138, 233, 20225>>,
      <<139, 159, 20379>>, <<140, 133, 26689>>, <<141, 228, 22586>>,
      <<141, 233, 22524>>, <<145, 229, 22823>>, <<145, 230, 31532>>,
      <<148, 65, 23615>>, <<148, 78, 24180>>, <<148, 148, 31893>>,
      <<149, 65, 26570>>, <<149, 78, 36924>>, <<149, 229, 21215>>,
      <<149, 231, 24917>>, <<149, 239, 21253>>, <<155, 129, 23462>>,
      <<155, 239, 24162>>, <<157, 239, 26210>>, <<159, 138, 27754>>,
      <<228, 190, 33811>>, <<229, 176, 34758>>, <<229, 185, 34807>>,
      <<231, 178, 37002>>, <<232, 159, 38493>>, <<233, 130, 39501>>,
      <<233, 153, 39663>>, <<233, 169, 39721>>, <<239, 189, 0>> }

\* The code point of a pair; -1 for a pair the table does not list.
SjisPair(lead, trail) ==
    LET rows == {r \in SjisTable : r[1] = lead /\ r[2] = trail}
    IN  IF rows = {} THEN -1 ELSE (CHOOSE r \in rows : TRUE)[3]

IsSjisLead(b) == (129 <= b /\ b <= 159) \/ (224 <= b /\ b <= 252)
IsSjisTrail(b) == (64 <= b /\ b <= 126) \/ (128 <= b /\ b <= 252)

\* bytes -> code points, as open(path, "r", encoding="shift_jis",
\* errors="ignore") decodes (line 274): ASCII as it is, 0xA1..0xDF to the
\* halfwidth katakana, a lead byte with its trail byte to the character of
\* the pair; a byte that starts no character is dropped, alone.
RECURSIVE SjisDecode(_)
SjisDecode(b) ==
    IF b = <<>> THEN <<>>
    ELSE LET x == Head(b) IN
         IF x < 128 THEN <<x>> \o SjisDecode(Tail(b))
         ELSE IF 161 <= x /\ x <= 223
              THEN <<65377 + (x - 161)>> \o SjisDecode(Tail(b))
         ELSE IF IsSjisLead(x) /\ Len(b) >= 2 /\ IsSjisTrail(b[2])
                 /\ SjisPair(x, b[2]) # 0
              THEN <<SjisPair(x, b[2])>> \o SjisDecode(Tail(Tail(b)))
         ELSE SjisDecode(Tail(b))

\* The newline translation of a text-mode read: CR LF, and a lone CR,
\* become LF.
RECURSIVE UniversalNewlines(_)
UniversalNewlines(t) ==
    IF t = <<>> THEN <<>>
    ELSE IF Head(t) = 13
         THEN <<10>> \o UniversalNewlines(
                  IF Len(t) >= 2 /\ t[2] = 10 THEN Tail(Tail(t)) ELSE Tail(t))
    ELSE <<Head(t)>> \o UniversalNewlines(Tail(t))

\* One code point as UTF-8 (the code points of the model are below 65536).
Utf8Char(cp) ==
    IF cp < 0 THEN <<cp>>
    ELSE IF cp < 128 THEN <<cp>>
    ELSE IF cp < 2048 THEN <<192 + (cp \div 64), 128 + (cp % 64)>>
    ELSE <<224 + (cp \div 4096), 128 + ((cp \div 64) % 64), 128 + (cp % 64)>>

\* code points -> bytes, as open(path, "w", encoding="utf-8") writes them
\* (lines 276-277): LF becomes os.linesep, every character its UTF-8 bytes.
RECURSIVE Utf8Write(_, _)
Utf8Write(t, ls) ==
    IF t = <<>> THEN <<>>
    ELSE (IF Head(t) = 10 THEN ls ELSE Utf8Char(Head(t)))
         \o Utf8Write(Tail(t), ls)

\* The read and the write of one file (lines 274-277).
ConvertBytes(b, ls) == Utf8Write(UniversalNewlines(SjisDecode(b)), ls)

\* `name.lower().endswith(".csv")` (line 271)
LowerCsv(ex) == IF ex = ".CSV" THEN ".csv" ELSE ex
IsCsvName(path) == LowerCsv(path.ext) = ".csv"

\* The files of the tree: two CSV files of two archives and a text file.
TreePaths == {Path("a/x", ".csv"), Path("b/y", ".CSV"), Path("a/n", ".txt")}
ArchiveFiles(ar) == {p \in TreePaths : SubSeq(p.stem, 1, 1) = ar}

\* A file: absent, or its bytes; `prev` (the bytes before the last
\* conversion), `decodes` (how often it was decoded as Shift-JIS) and `born`
\* (the conversion calls made before it was extracted) are history.
NoTreeFile ==
    [exists |-> FALSE, data |-> <<>>, prev |-> <<>>, decodes |-> 0, born |-> 0]
NewTreeFile(b, n) ==
    [exists |-> TRUE, data |-> b, prev |-> b, decodes |-> 0, born |-> n]

\* The body of the loop for one CSV file: it is read as Shift-JIS and
\* rewritten as UTF-8 whatever it held (no test of what it holds, no record
\* of what was converted).
ConvertFileOnce(f, ls) ==
    IF f.decodes > 0 THEN f
    ELSE [f EXCEPT !.data = ConvertBytes(f.data, ls), !.prev = f.data,
                   !.decodes = f.decodes + 1]
ConvertFile(f, ls) ==
    [f EXCEPT !.data = ConvertBytes(f.data, ls), !.prev = f.data,
              !.decodes = f.decodes + 1]

ConvIdle ==
    /\ src_bytes = <<>> /\ linesep = <<10>>
    /\ tree = [p \in TreePaths |-> NoTreeFile]
    /\ conv_calls = 0

InitConv ==
    /\ src_bytes \in SeqsUpTo(ByteAlphabet, MaxLen)
    /\ linesep \in {<<10>>, <<13, 10>>}
    /\ tree = [p \in TreePaths |-> NoTreeFile]
    /\ conv_calls = 0

\* _extract_zip puts the files of one archive into the tree.
ExtractArchiveFiles ==
    /\ \E ar \in {"a", "b"} :
          /\ \A p \in ArchiveFiles(ar) : ~tree[p].exists
          /\ tree' = [p \in TreePaths |->
                        IF p \in ArchiveFiles(ar)
                        THEN NewTreeFile(src_bytes, conv_calls) ELSE tree[p]]
    /\ UNCHANGED <<src_bytes, linesep, conv_calls>>
    /\ UNCHANGED <<parseVars, fetchVars, extractVars, runVars>>

\* _convert_csv_encoding("zip"): every file of the tree whose name ends in
\* .csv, whatever its case, is converted (lines 269-278).
ConvertCsvEncoding ==
    /\ conv_calls < MaxConverts
    /\ tree' = [p \in TreePaths |->
                  IF tree[p].exists /\ IsCsvName(p)
                  THEN ConvertFile(tree[p], linesep) ELSE tree[p]]
    /\ conv_calls' = conv_calls + 1
    /\ UNCHANGED <<src_bytes, linesep>>
    /\ UNCHANGED <<parseVars, fetchVars, extractVars, runVars>>

NextConv == ExtractArchiveFiles \/ ConvertCsvEncoding

\* UTF-8 bytes -> code points (sequences of up to three bytes).
RECURSIVE Utf8Decode(_)
Utf8Decode(b) ==
    IF b = <<>> THEN <<>>
    ELSE LET x == Head(b) IN
         IF x < 128 THEN <<x>> \o Utf8Decode(Tail(b))
         ELSE IF x < 224
              THEN <<(x - 192) * 64 + (b[2] - 128)>> \o Utf8Decode(Tail(Tail(b)))
         ELSE <<(x - 224) * 4096 + (b[2] - 128) * 64 + (b[3] - 128)>>
                  \o Utf8Decode(Tail(Tail(Tail(b))))

\* Every pair the decoder met is a pair of the table.
SjisTableCovers ==
    \A p \in TreePaths : \A i \in DOMAIN tree[p].data : tree[p].data[i] >= 0

\* C10: the conversion is not guarded against double conversion: every call
\* decodes every CSV file of the tree as Shift-JIS and rewrites it, converted
\* before or not, so a file is decoded once per call made since it was
\* extracted; a second conversion leaves a file unchanged exactly when its
\* UTF-8 bytes decode under Shift-JIS to what they decode to under UTF-8.
C10_NoDoubleConversionGuard ==
    \A p \in TreePaths :
        tree[p].exists =>
            IF IsCsvName(p)
            THEN /\ tree[p].decodes = conv_calls - tree[p].born
                 /\ tree[p].decodes >= 1 =>
                       tree[p].data = ConvertBytes(tree[p].prev, linesep)
                 /\ tree[p].decodes >= 2 =>
                       ((tree[p].data = tree[p].prev)
                           <=> (SjisDecode(tree[p].prev) = Utf8Decode(tree[p].prev)))
            ELSE tree[p].decodes = 0 /\ tree[p].data = src_bytes

\* C10 witness: a CSV file extracted before the first conversion was decoded
\* as Shift-JIS a second time, and the second conversion changed its bytes.
C10_Witness ==
    \E p \in TreePaths :
        /\ tree[p].exists /\ IsCsvName(p) /\ tree[p].born = 0
        /\ tree[p].decodes = 2
        /\ tree[p].data # tree[p].prev


\* ------------------------------------------------------------------------
\* A run: run_eprx_results.py (src/run_eprx_results.py:5-21), EPRX.results
\* (src/eprx_scraper.py:113-146) with _navigate_results_page (76-111),
\* _download_year_zips (220-236), _extract_downloaded_zips (255-261),
\* _convert_csv_encoding (263-280) and close_session (282-286), and
\* EPRX.results_direct (203-218) with download_files (183-201)
\* ------------------------------------------------------------------------

\* Bounds: the length of a command-line argument, the links of a run.
MaxArgLen == 4
MaxRunLinks == 2

\* The characters of an argument, and the arguments a run is started with.
ArgChars == {"2", "-", "x"}
Digits == {"0", "1", "2", "3", "4", "5", "6", "7", "8", "9"}
Argvs ==
    {<<>>} \cup {<<a>> : a \in SeqsUpTo(ArgChars, MaxArgLen)}
        \cup {<<a, b>> : a, b \in SeqsUpTo(ArgChars, 1)}
Todays == {[year |-> 2026, month |-> 3], [year |-> 2026, month |-> 4]}

DigitVal(c) ==
    CASE c = "0" -> 0 [] c = "1" -> 1 [] c = "2" -> 2 [] c = "3" -> 3
      [] c = "4" -> 4 [] c = "5" -> 5 [] c = "6" -> 6 [] c = "7" -> 7
      [] c = "8" -> 8 [] c = "9" -> 9

AllDigits(a) == a # <<>> /\ \A i \in DOMAIN a : a[i] \in Digits

\* int(a) does not raise ValueError: an optional sign and one or more
\* digits, of any number (line 12).
IntParses(a) ==
    \/ AllDigits(a)
    \/ a # <<>> /\ Head(a) = "-" /\ AllDigits(Tail(a))

RECURSIVE DigitsValue(_)
DigitsValue(a) ==
    IF a = <<>> THEN 0
    ELSE 10 * DigitsValue(SubSeq(a, 1, Len(a) - 1)) + DigitVal(a[Len(a)])

\* int(a)
IntValue(a) == IF Head(a) = "-" THEN 0 - DigitsValue(Tail(a)) ELSE DigitsValue(a)

\* The default year: the fiscal year of today (line 17).
DefaultFiscalYear(d) == IF d.month >= 4 THEN d.year ELSE d.year - 1

\* The script goes on to EPRX(): at most one argument, and it parses
\* (lines 6-17).
ArgsAccepted(av) == Len(av) + 1 <= 2 /\ (Len(av) + 1 = 2 => IntParses(av[1]))

\* The loop `for i in range(count)` and `for url in links` is over.
LoopOverAfterOne(i, total) == i >= 1 \/ i >= total
LoopOver(i, total) == i >= total

Links == 1..MaxRunLinks

\* What became of a link: the times it was fetched, the file saved for it
\* ("none", a valid "zip", a "badzip" that zipfile rejects, an "other" file
\* whose name does not end in .zip), whether that file is in the zip
\* directory, the _extract_zip calls on it, whether its extraction directory
\* holds a CSV file, and the conversions of that file.
SavedKinds == {"none", "zip", "badzip", "other"}
NoLinkItem ==
    [attempts |-> 0, saved |-> "none", file |-> FALSE, extract_calls |-> 0,
     csv |-> FALSE, conv_calls |-> 0]

RunIdle ==
    /\ argv = <<>> /\ today = [year |-> 2026, month |-> 4]
    /\ run_pc = "idle" /\ crash_cause = "none" /\ fiscal_year = 0
    /\ scraper = FALSE /\ browser = "none" /\ playwright = "none"
    /\ network = 0 /\ dl_total = 0 /\ dl_i = 0 /\ inflight = 0
    /\ items = [k \in Links |-> NoLinkItem] /\ todo = {}

\* A run starts as the script (with its arguments) or as a call of
\* results_direct on a fresh EPRX().
InitRun ==
    /\ run_pc \in {"main", "rd_fetch_page"}
    /\ argv \in IF run_pc = "main" THEN Argvs ELSE {<<>>}
    /\ today \in IF run_pc = "main" /\ argv = <<>>
                 THEN Todays ELSE {[year |-> 2026, month |-> 4]}
    /\ crash_cause = "none"
    /\ fiscal_year = IF run_pc = "main" THEN 0 ELSE DefaultFiscalYear(today)
    /\ scraper = (run_pc # "main")
    /\ browser = "none" /\ playwright = "none"
    /\ network = 0 /\ dl_total = 0 /\ dl_i = 0 /\ inflight = 0
    /\ items = [k \in Links |-> NoLinkItem]
    /\ todo = {}

OtherIdle == UNCHANGED <<parseVars, fetchVars, extractVars, convVars>>

\* An exception that nothing catches: it leaves results() and the script,
\* and the interpreter ends with a traceback.
Crash(cause) ==
    /\ run_pc' = "crashed"
    /\ crash_cause' = cause

\* ---- run_eprx_results.py ----

\* Lines 6-17: the argument count, int(), the default year.
MainArgs ==
    /\ run_pc = "main"
    /\ IF ArgsAccepted(argv)
       THEN /\ run_pc' = "construct"
            /\ fiscal_year' = IF Len(argv) = 1 THEN IntValue(argv[1])
                              ELSE DefaultFiscalYear(today)
       ELSE /\ run_pc' = "exit1"
            /\ UNCHANGED fiscal_year
    /\ UNCHANGED <<argv, today, crash_cause, scraper, browser, playwright,
                   network, dl_total, dl_i, inflight, items, todo>>
    /\ OtherIdle

\* Line 19: EPRX(). The constructor makes a requests.Session and sends
\* nothing.
Construct ==
    /\ run_pc = "construct"
    /\ scraper' = TRUE
    /\ run_pc' = "nav_start"
    /\ UNCHANGED <<argv, today, crash_cause, fiscal_year, browser, playwright,
                   network, dl_total, dl_i, inflight, items, todo>>
    /\ OtherIdle

\* ---- _navigate_results_page ----

\* Lines 84-85: sync_playwright().start(), then the browser is launched (or
\* the launch raises).
NavStart ==
    /\ run_pc = "nav_start"
    /\ playwright' = "started"
    /\ \E launched \in BOOLEAN :
          IF launched
          THEN browser' = "open" /\ run_pc' = "nav_open" /\ UNCHANGED crash_cause
          ELSE UNCHANGED browser /\ Crash("launch")
    /\ UNCHANGED <<argv, today, fiscal_year, scraper, network, dl_total, dl_i,
                   inflight, items, todo>>
    /\ OtherIdle

\* Lines 86-88: the context, the page, page.goto(base_url).
NavOpen ==
    /\ run_pc = "nav_open"
    /\ network' = network + 1
    /\ \E loaded \in BOOLEAN :
          IF loaded THEN run_pc' = "nav_results" /\ UNCHANGED crash_cause
          ELSE Crash("goto")
    /\ UNCHANGED <<argv, today, fiscal_year, scraper, browser, playwright,
                   dl_total, dl_i, inflight, items, todo>>
    /\ OtherIdle

\* Lines 89-93: the link is clicked, or, the click raising, the results page
\* is loaded by its URL; then the page waits for the network to be idle.
NavResults ==
    /\ run_pc = "nav_results"
    /\ network' = network + 1
    /\ \E clicked \in BOOLEAN, loaded \in BOOLEAN :
          IF clicked \/ loaded
          THEN run_pc' = "nav_consent" /\ UNCHANGED crash_cause
          ELSE Crash("goto")
    /\ UNCHANGED <<argv, today, fiscal_year, scraper, browser, playwright,
                   dl_total, dl_i, inflight, items, todo>>
    /\ OtherIdle

\* Lines 94-102: no checkbox, nothing to do; a checkbox is checked, or, the
\* check raising, its label is clicked (which raises when the page has no
\* such label), and the form is submitted.
NavConsent ==
    /\ run_pc = "nav_consent"
    /\ \E checkbox \in BOOLEAN, checked \in BOOLEAN, label \in BOOLEAN :
          IF ~checkbox \/ checked \/ label
          THEN /\ run_pc' = "nav_heading" /\ UNCHANGED crash_cause
               /\ network' = IF checkbox THEN network + 1 ELSE network
          ELSE Crash("label_absent") /\ UNCHANGED network
    /\ UNCHANGED <<argv, today, fiscal_year, scraper, browser, playwright,
                   dl_total, dl_i, inflight, items, todo>>
    /\ OtherIdle

\* Lines 105-111: section.wait_for() returns when the page has the heading
\* of the report kind and raises a timeout when it has not.
NavHeading ==
    /\ run_pc = "nav_heading"
    /\ \E heading \in BOOLEAN :
          IF heading THEN run_pc' = "dl_start" /\ UNCHANGED crash_cause
          ELSE Crash("heading_absent")
    /\ UNCHANGED <<argv, today, fiscal_year, scraper, browser, playwright,
                   network, dl_total, dl_i, inflight, items, todo>>
    /\ OtherIdle

\* ---- _download_year_zips ----

\* Lines 223-226: the anchors of the rows that hold the year are counted (no
\* such row: none).
DlStart ==
    /\ run_pc = "dl_start"
    /\ dl_total' \in 0..MaxRunLinks
    /\ dl_i' = 0
    /\ run_pc' = IF LoopOver(0, dl_total') THEN "ex_list" ELSE "dl_click"
    /\ UNCHANGED <<argv, today, crash_cause, fiscal_year, scraper, browser,
                   playwright, network, inflight, items, todo>>
    /\ OtherIdle

\* Lines 229-230: the link is clicked inside expect_download.
DlClick ==
    /\ run_pc = "dl_click"
    /\ inflight' = inflight + 1
    /\ network' = network + 1
    /\ items' = [items EXCEPT ![dl_i + 1].attempts = @ + 1]
    /\ run_pc' = "dl_wait"
    /\ UNCHANGED <<argv, today, crash_cause, fiscal_year, scraper, browser,
                   playwright, dl_total, dl_i, todo>>
    /\ OtherIdle

\* Lines 231-236: the download arrives and is saved under the name the
\* server suggests, or an exception (no download, a timeout) is caught and
\* printed; the loop goes on either way.
DlWait ==
    /\ run_pc = "dl_wait"
    /\ inflight' = inflight - 1
    /\ \E kind \in SavedKinds :
          items' = [items EXCEPT ![dl_i + 1].saved = kind,
                                 ![dl_i + 1].file = (kind # "none")]
    /\ dl_i' = dl_i + 1
    /\ run_pc' = IF LoopOver(dl_i', dl_total) THEN "ex_list" ELSE "dl_click"
    /\ UNCHANGED <<argv, today, crash_cause, fiscal_year, scraper, browser,
                   playwright, network, dl_total, todo>>
    /\ OtherIdle

\* ---- _extract_downloaded_zips("zip") ----

\* Lines 257-259: the directory is listed once.
ExList ==
    /\ run_pc = "ex_list"
    /\ todo' = {k \in Links : items[k].file}
    /\ run_pc' = "ex_loop"
    /\ UNCHANGED <<argv, today, crash_cause, fiscal_year, scraper, browser,
                   playwright, network, dl_total, dl_i, inflight, items>>
    /\ OtherIdle

\* Lines 260-261 and _extract_zip: a name that ends in .zip is extracted and,
\* extracted, removed (unless os.remove fails); a corrupt archive is printed
\* as failed and stays, with what zipfile wrote before it raised.
ExStep ==
    /\ run_pc = "ex_loop"
    /\ todo # {}
    /\ \E k \in todo, removable \in BOOLEAN, partial \in BOOLEAN :
          /\ todo' = todo \ {k}
          /\ items' =
                IF items[k].saved = "other" THEN items
                ELSE [items EXCEPT
                        ![k].extract_calls = @ + 1,
                        ![k].csv = IF items[k].saved = "zip" THEN TRUE
                                   ELSE partial,
                        ![k].file = IF items[k].saved = "zip" /\ removable
                                    THEN FALSE ELSE @]
    /\ UNCHANGED <<argv, today, run_pc, crash_cause, fiscal_year, scraper,
                   browser, playwright, network, dl_total, dl_i, inflight>>
    /\ OtherIdle

ExDone ==
    /\ run_pc = "ex_loop"
    /\ todo = {}
    /\ run_pc' = "cv_walk"
    /\ UNCHANGED <<argv, today, crash_cause, fiscal_year, scraper, browser,
                   playwright, network, dl_total, dl_i, inflight, items, todo>>
    /\ OtherIdle

\* ---- _convert_csv_encoding("zip") ----

\* Lines 267-271: the tree is walked; the CSV files are those of the
\* extraction directories.
CvWalk ==
    /\ run_pc = "cv_walk"
    /\ todo' = {k \in Links : items[k].csv}
    /\ run_pc' = "cv_loop"
    /\ UNCHANGED <<argv, today, crash_cause, fiscal_year, scraper, browser,
                   playwright, network, dl_total, dl_i, inflight, items>>
    /\ OtherIdle

\* Lines 272-280: a file is converted, or the exception is caught and
\* printed; the loop goes on either way.
CvStep ==
    /\ run_pc = "cv_loop"
    /\ todo # {}
    /\ \E k \in todo :
          /\ todo' = todo \ {k}
          /\ items' = [items EXCEPT ![k].conv_calls = @ + 1]
    /\ UNCHANGED <<argv, today, run_pc, crash_cause, fiscal_year, scraper,
                   browser, playwright, network, dl_total, dl_i, inflight>>
    /\ OtherIdle

\* results() returns the page (line 146) to the script.
CvDone ==
    /\ run_pc = "cv_loop"
    /\ todo = {}
    /\ run_pc' = "close_browser"
    /\ UNCHANGED <<argv, today, crash_cause, fiscal_year, scraper, browser,
                   playwright, network, dl_total, dl_i, inflight, items, todo>>
    /\ OtherIdle

\* ---- close_session (the script's line 21) ----

\* Lines 283-284: browser.close(), which can raise.
CloseBrowser ==
    /\ run_pc = "close_browser"
    /\ \E closed \in BOOLEAN :
          IF closed
          THEN /\ browser' = "closed" /\ run_pc' = "stop_playwright"
               /\ UNCHANGED crash_cause
          ELSE UNCHANGED browser /\ Crash("close")
    /\ UNCHANGED <<argv, today, fiscal_year, scraper, playwright, network,
                   dl_total, dl_i, inflight, items, todo>>
    /\ OtherIdle

\* Lines 285-286: playwright.stop(); the script ends.
StopPlaywright ==
    /\ run_pc = "stop_playwright"
    /\ playwright' = "stopped"
    /\ run_pc' = "exit0"
    /\ UNCHANGED <<argv, today, crash_cause, fiscal_year, scraper, browser,
                   network, dl_total, dl_i, inflight, items, todo>>
    /\ OtherIdle

\* ---- results_direct ----

\* Lines 209-213: the page is fetched; an exception is printed and the
\* function returns.
RdFetchPage ==
    /\ run_pc = "rd_fetch_page"
    /\ network' = network + 1
    /\ \E fetched \in BOOLEAN :
          run_pc' = IF fetched THEN "rd_parse" ELSE "rd_returned"
    /\ UNCHANGED <<argv, today, crash_cause, fiscal_year, scraper, browser,
                   playwright, dl_total, dl_i, inflight, items, todo>>
    /\ OtherIdle

\* Lines 214-218: parse_links; without links the function returns.
RdParse ==
    /\ run_pc = "rd_parse"
    /\ dl_total' \in 0..MaxRunLinks
    /\ dl_i' = 0
    /\ run_pc' = IF LoopOver(0, dl_total') THEN "rd_returned" ELSE "rd_get"
    /\ UNCHANGED <<argv, today, crash_cause, fiscal_year, scraper, browser,
                   playwright, network, inflight, items, todo>>
    /\ OtherIdle

\* download_files, line 193: the GET of one link (overwrite being True, no
\* link is skipped).
RdGet ==
    /\ run_pc = "rd_get"
    /\ inflight' = inflight + 1
    /\ network' = network + 1
    /\ items' = [items EXCEPT ![dl_i + 1].attempts = @ + 1]
    /\ run_pc' = "rd_resp"
    /\ UNCHANGED <<argv, today, crash_cause, fiscal_year, scraper, browser,
                   playwright, dl_total, dl_i, todo>>
    /\ OtherIdle

\* download_files, lines 194-201: the body is written, or the failure or
\* the exception is printed; the loop goes on either way and the function
\* returns after the last link. Nothing is extracted or converted.
RdResp ==
    /\ run_pc = "rd_resp"
    /\ inflight' = inflight - 1
    /\ \E kind \in SavedKinds :
          items' = [items EXCEPT ![dl_i + 1].saved = kind,
                                 ![dl_i + 1].file = (kind # "none")]
    /\ dl_i' = dl_i + 1
    /\ run_pc' = IF LoopOver(dl_i', dl_total) THEN "rd_returned" ELSE "rd_get"
    /\ UNCHANGED <<argv, today, crash_cause, fiscal_year, scraper, browser,
                   playwright, network, dl_total, todo>>
    /\ OtherIdle

NextRun ==
    \/ MainArgs \/ Construct
    \/ NavStart \/ NavOpen \/ NavResults \/ NavConsent \/ NavHeading
    \/ DlStart \/ DlClick \/ DlWait
    \/ ExList \/ ExStep \/ ExDone
    \/ CvWalk \/ CvStep \/ CvDone
    \/ CloseBrowser \/ StopPlaywright
    \/ RdFetchPage \/ RdParse \/ RdGet \/ RdResp


\* ---- what the claims about a run speak of ----

DirectPcs == {"rd_fetch_page", "rd_parse", "rd_get", "rd_resp", "rd_returned"}
DownloadPcs == {"dl_start", "dl_click", "dl_wait"}
\* results() has returned to the script.
ReturnedPcs == {"close_browser", "stop_playwright", "exit0"}
\* The process has ended.
EndedPcs == {"exit0", "exit1", "crashed"}

\* An archive was saved for the link under a name that ends in .zip.
SavedArchive(k) == items[k].saved \in {"zip", "badzip"}

\* C6: once Playwright is started and the browser launched, the browser is
\* closed and Playwright stopped on every exit path of the run.
C6_BrowserReleased ==
    (run_pc \in EndedPcs /\ browser # "none")
        => (browser = "closed" /\ playwright = "stopped")

\* C7: every failure other than an invalid argument is log-and-continue: a
\* missing heading, table or checkbox, a transport failure on one file, a
\* corrupt archive or a failed conversion never ends the run with an
\* uncaught error; each link is attempted exactly once and every link after a
\* failing one is still attempted, on both paths.
C7_LogAndContinue ==
    /\ ~(run_pc = "crashed" /\ crash_cause = "heading_absent")
    /\ \A k \in Links : items[k].attempts <= 1
    /\ run_pc \in ReturnedPcs \cup {"rd_returned"} =>
          \A k \in 1..dl_total : items[k].attempts = 1

\* A valid fiscal-year argument: four digits, as the usage message says.
FourDigits(a) == Len(a) = 4 /\ AllDigits(a)
ValidInvocation(av) == Len(av) = 0 \/ (Len(av) = 1 /\ FourDigits(av[1]))

\* C8: an argument that is no valid fiscal year (no 4-digit number), or more
\* than one argument, ends the process with a non-zero status before the
\* scraper is constructed, a browser launched or a request issued; every run
\* that reaches the scraper was started with a valid year or no argument.
C8_InvalidYearIsFatal ==
    /\ scraper => ValidInvocation(argv)
    /\ ~ValidInvocation(argv) =>
          /\ run_pc \in {"main", "exit1"}
          /\ network = 0 /\ browser = "none" /\ playwright = "none"

\* C9 as stated: processing is per link: a link is fetched and its archive
\* extracted and converted before the next link is fetched, never more than
\* one fetch is in flight, and every archive saved is extracted and converted
\* in the same run, on the direct path as on the browser path.
C9_AsStated ==
    /\ inflight <= 1
    /\ inflight = 1 =>
          \A k \in Links :
              (k # dl_i + 1 /\ SavedArchive(k)) => items[k].extract_calls >= 1
    /\ run_pc \in ReturnedPcs \cup {"rd_returned"} =>
          \A k \in Links : SavedArchive(k) => items[k].extract_calls >= 1

\* C9 amended: processing is sequential and phase by phase, not per link. On
\* the browser path the links are fetched one after another, never more than
\* one fetch in flight and each link once; no archive is extracted before
\* every link was attempted, and no file converted before every archive of
\* the listing was handed to _extract_zip; when results() returns, every
\* archive saved under a .zip name was handed to _extract_zip once and every
\* CSV file extracted was converted once. The direct path only downloads: it
\* extracts and converts nothing.
C9_PhaseByPhase ==
    /\ inflight <= 1
    /\ \A k \in Links : items[k].attempts <= 1
    /\ (\E k \in Links : items[k].extract_calls > 0) =>
          /\ run_pc \notin DownloadPcs \cup DirectPcs
          /\ \A k \in 1..dl_total : items[k].attempts = 1
    /\ (\E k \in Links : items[k].conv_calls > 0) =>
          \A k \in Links : SavedArchive(k) => items[k].extract_calls = 1
    /\ run_pc \in ReturnedPcs =>
          \A k \in Links :
              /\ SavedArchive(k) => items[k].extract_calls = 1
              /\ items[k].csv => items[k].conv_calls = 1
    /\ run_pc \in DirectPcs =>
          \A k \in Links :
              /\ items[k].extract_calls = 0 /\ items[k].conv_calls = 0
              /\ items[k].file = (items[k].saved # "none")

\* C9 witness: results() has returned from a run of two links whose archives
\* were both saved, extracted and converted.
C9_Witness ==
    /\ run_pc \in ReturnedPcs /\ dl_total = 2
    /\ \A k \in 1..2 :
          /\ items[k].saved = "zip" /\ items[k].extract_calls = 1
          /\ items[k].conv_calls = 1


\* ---- what the claims about parse_links speak of ----

\* The table of the heading's own section: the first table after the heading
\* and before the next h2; 0 when the section holds none.
SectionTable(doc, h) ==
    LET later == {j \in DOMAIN doc : j > h /\ doc[j].tag = "h2"}
        stop == IF later = {} THEN Len(doc) + 1 ELSE SetMin(later)
        ts == {j \in DOMAIN doc : j > h /\ j < stop /\ doc[j].tag = "table"}
    IN  IF ts = {} THEN 0 ELSE SetMin(ts)

\* The links of the rows whose year label, the suffix stripped, is yr.
RECURSIVE YearRowLinks(_, _)
YearRowLinks(rows, yr) ==
    IF rows = <<>> THEN <<>>
    ELSE (IF Head(rows).hasTh /\ YrText(Head(rows).th) = yr
          THEN AnchorLinks(Head(rows).anchors) ELSE <<>>)
         \o YearRowLinks(Tail(rows), yr)

MatchedHeading == FindHeading(html, TableTitle(report_type))
MatchedSectionTable ==
    IF MatchedHeading = 0 THEN 0 ELSE SectionTable(html, MatchedHeading)

\* C2: for markup with the matching heading and a table in its section,
\* parse_links called with a year returns, in document order, exactly the
\* links of the rows whose year label equals the year: none from a row of
\* another year, none from a row without a year label.
C2_ExactlyTheYearRows ==
    (parse_pc = "done" /\ year # <<>> /\ MatchedSectionTable # 0)
        => links = YearRowLinks(html[MatchedSectionTable].rows, year)

\* C3: parse_links returns the empty sequence when the heading of the report
\* kind is absent or its section has no table; the table it scans is the one
\* of the matched heading's section, never a later section's.
C3_EmptyWithoutSectionTable ==
    parse_pc = "done" =>
        IF MatchedSectionTable = 0
        THEN links = <<>>
        ELSE links = RowLinks(html[MatchedSectionTable].rows, year)

\* ------------------------------------------------------------------------
\* The specifications
\* ------------------------------------------------------------------------

StartParse == InitParse /\ FetchIdle /\ ExtractIdle /\ ConvIdle /\ RunIdle
SpecParse == StartParse /\ [][NextParse]_vars

StartFetch == InitFetch /\ ParseIdle /\ ExtractIdle /\ ConvIdle /\ RunIdle
SpecFetch == StartFetch /\ [][NextFetch]_vars

StartExtract == InitExtract /\ ParseIdle /\ FetchIdle /\ ConvIdle /\ RunIdle
SpecExtract == StartExtract /\ [][NextExtract]_vars

StartConv == InitConv /\ ParseIdle /\ FetchIdle /\ ExtractIdle /\ RunIdle
SpecConv == StartConv /\ [][NextConv]_vars

StartRun == InitRun /\ ParseIdle /\ FetchIdle /\ ExtractIdle /\ ConvIdle
SpecRun == StartRun /\ [][NextRun]_vars

=============================================================================
